---- MODULE Spec2Model ----
(***************************************************************************)
(* A model of the dbt Cloud webhook -> Datadog forwarder: src/app.py (the  *)
(* webhook handler, the run-scoped extraction, the batch generator) and    *)
(* src/client.py (the paginating Discovery API client).                    *)
(*                                                                         *)
(* Python values are represented as follows.  A str is a TLA+ string; an   *)
(* Optional[str] that is None is the string None below.  A dict is a       *)
(* function whose domain is its key set; a JSON null inside a node is the  *)
(* record JsonNull.  A list is a sequence.  The set of local names a frame *)
(* has bound so far is tracked in the variable bound.                      *)
(*                                                                         *)
(* The two network calls (requests.post, submit_log) block: each is two    *)
(* steps, the request going out and the answer coming back, and what the   *)
(* remote side answers is chosen when the answer comes back.  The metadata *)
(* API answers the n-th request of a call with a page n of its choosing.   *)
(* Deliveries carry well-formed payloads; the logger calls, which change   *)
(* no state of the program, are left out.  apiRequests, apiResponses,      *)
(* ddRequests, ddAnswers and yielded record what went over the network and *)
(* what the generator has produced; the program does not read them.        *)
(*                                                                         *)
(* Spec handles one delivery.  SpecLive is the same handler under weak     *)
(* fairness against short pages.  SpecTwo runs two deliveries, about two   *)
(* environments, in any interleaving.  SpecExtract and SpecChunk call      *)
(* get_run_metadata and chunker on their own.                              *)
(***************************************************************************)
EXTENDS Integers, Sequences, FiniteSets, TLC

\* ------------------------------------------------------------------ bounds

\* The largest number of pages one run_query call is allowed to request in
\* the model (the code itself has no bound).
MaxPages == 3

\* The longest edge list drawn as an input of get_run_metadata.
MaxEdges == 3

\* The longest sequence drawn as an input of chunker.
MaxSeqLen == 2001

\* ------------------------------------------------------- program constants

DATADOG_MAX_LIST_SIZE == 1000

\* The default of run_query's limit parameter.
DEFAULT_LIMIT == 500

DEFAULT_URL == "https://metadata.cloud.getdbt.com/graphql"

NODE_TYPES == <<"Model", "Seed", "Snapshot", "Test">>

\* WebhookEventType: a plain enum.Enum; a member is an object of the enum
\* class that carries a value, it is not a str.
WebhookEventType_ERROR == [class |-> "WebhookEventType", value |-> "job.run.errored"]

WebhookEventType_COMPLETED == [class |-> "WebhookEventType", value |-> "job.run.completed"]

WebhookEventType_STARTED == [class |-> "WebhookEventType", value |-> "job.run.started"]

\* ---------------------------------------------------------- Python values

None == "None"

JsonNull == [isNull |-> TRUE]

\* A str taken from a JSON document, as a Python object.
PyStr(s) == [class |-> "str", value |-> s]

\* a != b for two Python objects: str compares by value with another str,
\* an Enum member is equal only to itself.
PyNe(a, b) == ~(a.class = b.class /\ a.value = b.value)

\* bool(s) of an Optional[str].
StrTruthy(s) == s # None /\ s # ""

\* bool(v) of a node field that is a dict or null.
DictTruthy(v) == DOMAIN v # {} /\ v # JsonNull

\* str.lower() on the resource type names.
Lower(s) ==
  CASE s = "Model" -> "model"
    [] s = "Seed" -> "seed"
    [] s = "Snapshot" -> "snapshot"
    [] s = "Test" -> "test"
    [] OTHER -> s

\* The decimal numbers int() is applied to.
RunIdRange == 0..99

\* int(s) succeeds: s is a decimal numeral, possibly with a leading zero.
IntParses(s) == \E n \in RunIdRange : s = ToString(n) \/ s = "0" \o ToString(n)

\* int(s) for a text that parses.
IntOf(s) == CHOOSE n \in RunIdRange : s = ToString(n) \/ s = "0" \o ToString(n)

Min(a, b) == IF a < b THEN a ELSE b

\* seq[lo:hi] for 0 <= lo.
Slice(seq, lo, hi) == SubSeq(seq, lo + 1, Min(hi, Len(seq)))

\* len(range(start, stop, step)) for step > 0.
RangeLen(start, stop, step) ==
  IF stop > start THEN (stop - start + step - 1) \div step ELSE 0

\* ------------------------------------------------------- get_run_metadata

\* node.get("resourceType", "").lower()
resource_type(node) ==
  Lower(IF "resourceType" \in DOMAIN node THEN node.resourceType ELSE "")

\* f"{resource_type}ExecutionInfo" if resource_type else None
execution_info_key_MutNoGuard(node) == resource_type(node) \o "ExecutionInfo"

execution_info_key(node) ==
  IF resource_type(node) # "" THEN resource_type(node) \o "ExecutionInfo" ELSE None

\* execution_info_key and node.get(key) and node.get(key).get("lastRunId") == run_id
in_run_MutAnyRun(node, run_id) ==
  LET key == execution_info_key(node) IN
    /\ key # None
    /\ key \in DOMAIN node
    /\ DictTruthy(node[key])

in_run(node, run_id) ==
  LET key == execution_info_key(node) IN
    /\ key # None
    /\ key \in DOMAIN node
    /\ DictTruthy(node[key])
    /\ "lastRunId" \in DOMAIN node[key]
    /\ node[key].lastRunId = run_id

\* {**{k: v for k, v in node.items() if k != key}, "executionInfo": node[key]}
normalized_MutKeepKey(node) ==
  LET key == execution_info_key(node) IN
    [k \in DOMAIN node \cup {"executionInfo"} |->
       IF k = "executionInfo" THEN node[key] ELSE node[k]]

normalized(node) ==
  LET key == execution_info_key(node) IN
    [k \in (DOMAIN node \ {key}) \cup {"executionInfo"} |->
       IF k = "executionInfo" THEN node[key] ELSE node[k]]

\* The loop over edges: the edges in run, in edge order, each normalized.
get_run_metadata(edges, run_id) ==
  LET hits == SelectSeq(edges, LAMBDA edge : in_run(edge.node, run_id)) IN
    [j \in 1..Len(hits) |-> normalized(hits[j].node)]

\* ---------------------------------------------------------------- chunker

\* seq[pos : pos + size]
chunk_at_MutShort(seq, pos) == Slice(seq, pos, pos + DATADOG_MAX_LIST_SIZE - 1)

chunk_at(seq, pos) == Slice(seq, pos, pos + DATADOG_MAX_LIST_SIZE)

\* chunker(seq): the generator object right after its creation; range(0,
\* len(seq), size) is evaluated when the generator expression is created.
chunker(seq) == [pos |-> 0, stop |-> Len(seq)]

\* next() on the generator would raise StopIteration.
gen_exhausted_MutAfterFirst(gen) == gen.pos > 0 \/ gen.pos >= gen.stop

gen_exhausted_MutInclusive(gen) == gen.pos > gen.stop

gen_exhausted(gen) == gen.pos >= gen.stop

\* The generator after one next().
gen_advance_MutOverlap(gen) == [gen EXCEPT !.pos = gen.pos + DATADOG_MAX_LIST_SIZE - 1]

gen_advance(gen) == [gen EXCEPT !.pos = gen.pos + DATADOG_MAX_LIST_SIZE]

\* ------------------------------------------------------ the webhook request

\* The invocation slots of the endpoint: one per webhook delivery in flight.
Slots == {1, 2}

EventTypes == {"job.run.started", "job.run.completed", "job.run.errored"}

\* data.runId as the webhook delivers it: a text.
RunIdTexts == {"55", "056", "x"}

EnvironmentIds == {10, 20}

\* The environment the deliveries handled in slot i are about.
SlotEnvironment(i) == 10 * i

Payload(et, rid, envId) ==
  [eventType |-> et, webhookName |-> "datadog",
   data |-> [runId |-> rid, environmentId |-> envId, projectName |-> "analytics",
             environmentName |-> "prod", jobName |-> "daily",
             runReason |-> "scheduled"]]

Payloads == {Payload(et, rid, e) : et \in EventTypes, rid \in RunIdTexts, e \in EnvironmentIds}

\* The raw request body of a payload (its JSON text).
Body(p) == ToString(p)

\* request.json(): the document the body text encodes.
JsonLoads(body) == CHOOSE p \in Payloads : Body(p) = body

\* hmac.new(secret.encode(), payload, hashlib.sha256).hexdigest(), as a text
\* that determines the key and the message (no collisions).
hmac_hexdigest(secret, body) == "hmac-sha256(" \o secret \o "," \o body \o ")"

\* The header sets a delivery may carry: no authorization header, an empty
\* one, the digest under the right secret, under another secret, and of
\* another body.
HeaderChoices(body) ==
  {<<>>} \cup
  {[authorization |-> a] :
     a \in {"", hmac_hexdigest("s3cret", body), hmac_hexdigest("wr0ng", body),
            hmac_hexdigest("s3cret", body \o " ")}}

\* The process environments: each variable unset (None) or set.
Environments ==
  [DBT_CLOUD_SERVICE_TOKEN : {None, "tok"},
   DBT_CLOUD_WEBHOOK_SECRET : {None, "", "s3cret"},
   DBT_CLOUD_METADATA_URL : {None}]

\* os.getenv(name, default)
getenv(e, name, default) == IF e[name] = None THEN default ELSE e[name]

\* ------------------------------------------------------- the metadata API

QUERY == "query Applied"

\* The opaque cursor the API hands out at the end of page n of an
\* environment.
CursorOf(envId, n) == "cursor" \o ToString(envId) \o "." \o ToString(n)

ExecutionInfo(runId) == [lastRunId |-> runId, lastRunStatus |-> "success"]

ModelNode(envId, n, k, runId) ==
  [resourceType |-> "Model", environmentId |-> envId,
   uniqueId |-> "model.p" \o ToString(n) \o "." \o ToString(k),
   modelExecutionInfo |-> ExecutionInfo(runId)]

SeedNode(envId, n, k, runId) ==
  [resourceType |-> "Seed", environmentId |-> envId,
   uniqueId |-> "seed.p" \o ToString(n) \o "." \o ToString(k),
   seedExecutionInfo |-> ExecutionInfo(runId)]

\* The last run of an environment (55 in environment 10, 56 in 20); the
\* run before it is one less.
LastRunOf(envId) == 54 + (envId \div 10)

\* The shapes page n may have; the first page may also hold one resource.
PageShapes(n) == IF n = 1 THEN {"single", "small", "full"} ELSE {"small", "full"}

\* The edges of page n of an environment: one resource of its last run, or
\* two resources, one of the run before and one of the last run, or a page
\* filled to the requested size with resources of the last run.
PageEdges(envId, n, shape) ==
  LET run == LastRunOf(envId) IN
    CASE shape = "single" -> <<[node |-> ModelNode(envId, n, 1, run)]>>
      [] shape = "small" -> <<[node |-> SeedNode(envId, n, 1, run - 1)],
                              [node |-> ModelNode(envId, n, 2, run)]>>
      [] shape = "full" ->
           [k \in 1..DEFAULT_LIMIT |-> [node |-> ModelNode(envId, n, k, run)]]

\* The pageInfo records of a page after which the API has more to give.
MorePageInfos(envId, n) == {[hasNextPage |-> TRUE, endCursor |-> CursorOf(envId, n)]}

\* The pageInfo records of the other pages: no next page (said or left
\* out), or a next page announced with a null or empty cursor.
LastPageInfos(envId, n) ==
  {[hasNextPage |-> FALSE, endCursor |-> CursorOf(envId, n)],
   [endCursor |-> None],
   [hasNextPage |-> TRUE, endCursor |-> ""],
   [hasNextPage |-> TRUE, endCursor |-> None]}

ApiBody(es, pi) ==
  [data |-> [environment |-> [applied |-> [resources |->
     [edges |-> es, pageInfo |-> pi, totalCount |-> Len(es)]]]]]

\* What the API may answer to the n-th request of a call, a request about
\* the environment envId.
ApiAnswers(envId, n) ==
  {[status_code |-> 200, json |-> ApiBody(es, pi)] :
     es \in {PageEdges(envId, n, sh) : sh \in PageShapes(n)},
     pi \in LastPageInfos(envId, n)
             \cup (IF n < MaxPages THEN MorePageInfos(envId, n) ELSE {})}
  \cup {[status_code |-> 500, json |-> ApiBody(<<>>, [endCursor |-> None])]}

\* What the log-ingestion call may do: return a response that reports
\* acceptance, return one that reports a failure, or raise.
DatadogAnswers == {"accepted", "error_response", "exception"}

\* ------------------------------------------------------ DiscoveryApiClient

\* d.update(u)
DictUpdate_MutReplace(d, u) == u

DictUpdate(d, u) ==
  [k \in DOMAIN d \cup DOMAIN u |-> IF k \in DOMAIN u THEN u[k] ELSE d[k]]

\* DiscoveryApiClient.__init__ raises ValueError.
init_raises_MutNoCheck(e) == FALSE

init_raises(e) == getenv(e, "DBT_CLOUD_SERVICE_TOKEN", None) = None

\* The client object __init__ leaves.
DiscoveryApiClient_MutOneEnvironment(e, environment_id) ==
  [environment_id |-> 10,
   token |-> getenv(e, "DBT_CLOUD_SERVICE_TOKEN", None),
   url |-> getenv(e, "DBT_CLOUD_METADATA_URL", DEFAULT_URL)]

DiscoveryApiClient(e, environment_id) ==
  [environment_id |-> environment_id,
   token |-> getenv(e, "DBT_CLOUD_SERVICE_TOKEN", None),
   url |-> getenv(e, "DBT_CLOUD_METADATA_URL", DEFAULT_URL)]

\* The variables mapping after variables.update({...}).
updated_variables_MutNoCursor(self, vars, after_cursor, limit) ==
  DictUpdate(vars, [environmentId |-> self.environment_id, limit |-> limit,
                    after |-> None, first |-> limit])

updated_variables(self, vars, after_cursor, limit) ==
  DictUpdate(vars, [environmentId |-> self.environment_id, limit |-> limit,
                    after |-> after_cursor, first |-> limit])

\* The POST _run_query_with_cursor sends.
api_request(self, query, vars, after_cursor, limit) ==
  [url |-> self.url,
   headers |-> [Authorization |-> "Bearer " \o self.token],
   json |-> [query |-> query,
             variables |-> updated_variables(self, vars, after_cursor, limit)]]

\* response.raise_for_status() raises (a 4xx or 5xx status).
raise_for_status_MutNever(response) == FALSE

raise_for_status(response) == response.status_code >= 400

resources_of(api_response) == api_response.data.environment.applied.resources

\* _get_next_page_cursor
get_next_page_cursor_MutNoCursor(api_response) == None

get_next_page_cursor(api_response) ==
  LET pg == resources_of(api_response).pageInfo IN
    IF (IF "hasNextPage" \in DOMAIN pg THEN pg.hasNextPage ELSE FALSE)
      THEN pg.endCursor
      ELSE None

\* _extract_query_results
extract_query_results(api_response) == resources_of(api_response).edges

\* all_results.extend(results)
extend_MutOverwrite(all, results) == results

extend(all, results) == all \o results

\* run_query leaves its loop: "if not cursor: break".
loop_breaks_MutOnlyNone(c) == c = None

loop_breaks_MutFirstPage(c) == TRUE

loop_breaks(c) == ~StrTruthy(c)

\* -------------------------------------------------------- verify_signature

\* What the endpoint answers: a returned value (200), an HTTPException
\* (its status), an exception nobody catches (500).
NoResponse == [status |-> 0, body |-> ""]

Success == [status |-> 200, body |-> "success"]

HTTPException(status_code, detail) == [status |-> status_code, body |-> detail]

Uncaught(exception) == [status |-> 500, body |-> exception]

\* request.headers.get("authorization")
authorization_of(req) ==
  IF "authorization" \in DOMAIN req.headers THEN req.headers.authorization ELSE None

\* verify_signature: the HTTPException it raises, or NoResponse when it
\* returns.
verify_signature_MutNoCompare(e, req) ==
  LET signature == authorization_of(req)
      secret == getenv(e, "DBT_CLOUD_WEBHOOK_SECRET", None) IN
    IF ~StrTruthy(signature) \/ ~StrTruthy(secret)
      THEN HTTPException(400, "Missing signature or secret")
      ELSE NoResponse

verify_signature(e, req) ==
  LET signature == authorization_of(req)
      secret == getenv(e, "DBT_CLOUD_WEBHOOK_SECRET", None) IN
    IF ~StrTruthy(signature) \/ ~StrTruthy(secret)
      THEN HTTPException(400, "Missing signature or secret")
      ELSE IF hmac_hexdigest(secret, req.body) # signature
             THEN HTTPException(401, "Invalid signature")
             ELSE NoResponse

\* --------------------------------------------------------- the log items

\* The tags mapping, in insertion order.
tags_of(p) ==
  <<<<"project_name", p.data.projectName>>,
    <<"environment_name", p.data.environmentName>>,
    <<"job_name", p.data.jobName>>,
    <<"run_id", p.data.runId>>,
    <<"webhook_name", p.webhookName>>,
    <<"run_reason", p.data.runReason>>>>

\* ",".join("{}:{}".format(*i) for i in tags.items())
RECURSIVE join_tags(_)
join_tags(ts) ==
  IF ts = <<>> THEN ""
  ELSE ts[1][1] \o ":" \o ts[1][2]
       \o (IF Len(ts) > 1 THEN "," \o join_tags(Tail(ts)) ELSE "")

\* json.dumps(node): a text that determines the record.
json_dumps(node) == ToString(node)

HTTPLogItem(node, ts, cl) ==
  [ddsource |-> "dbt_cloud", ddtags |-> join_tags(ts), hostname |-> cl.url,
   message |-> json_dumps(node), service |-> "dbt_cloud_webhooks"]

\* The loop "for node in nodes: logs.append(HTTPLogItem(...))".
build_logs(ns, ts, cl) == [j \in 1..Len(ns) |-> HTTPLogItem(ns[j], ts, cl)]

\* ------------------------------------------------------------------ state

VARIABLES
  env,           \* the process environment (read only)
  pc,            \* per slot: where the invocation stands
  request,       \* per slot: the delivery, [body, headers]
  payload,       \* per slot: webhook_handler's payload
  event_type,    \* per slot: webhook_handler's event_type, a Python object
  tags,          \* per slot: webhook_handler's tags
  client,        \* per slot: the DiscoveryApiClient
  variables,     \* per slot: the variables dict handed to run_query
  cursor,        \* per slot: run_query's cursor
  all_results,   \* per slot: run_query's all_results
  page,          \* per slot: run_query's page
  edges,         \* per slot: webhook_handler's edges
  nodes,         \* per slot: webhook_handler's nodes
  logs,          \* per slot: webhook_handler's logs
  gen,           \* per slot: the generator chunker(logs)
  log_items,     \* per slot: the batch the for loop holds
  responses,     \* per slot: webhook_handler's responses
  bound,         \* per slot: the local names webhook_handler has bound
  outcome,       \* per slot: what the webhook caller is answered
  apiRequests,   \* per slot: the POSTs sent to the metadata API, in order
  apiResponses,  \* per slot: the answers received from it, in order
  ddRequests,    \* per slot: the bodies handed to submit_log, in order
  ddAnswers,     \* per slot: what each submit_log call did, in order
  yielded,       \* per slot: how many batches the generator has yielded
  call           \* the pure function under test, its arguments and result

handlerVars == <<payload, event_type, tags, client, variables, edges, nodes, logs,
                 gen, log_items, responses, bound>>

queryVars == <<cursor, all_results, page>>

netVars == <<apiRequests, apiResponses, ddRequests, ddAnswers, yielded>>

vars == <<env, pc, request, outcome, handlerVars, queryVars, netVars, call>>

NoRequest == [body |-> "", headers |-> <<>>]

NoClient == [environment_id |-> 0, token |-> None, url |-> None]

NoCall == [op |-> "none"]

\* Every slot idle, nothing bound.
IdleSlots ==
  /\ pc = [i \in Slots |-> "idle"]
  /\ request = [i \in Slots |-> NoRequest]
  /\ payload = [i \in Slots |-> <<>>]
  /\ event_type = [i \in Slots |-> PyStr("")]
  /\ tags = [i \in Slots |-> <<>>]
  /\ client = [i \in Slots |-> NoClient]
  /\ variables = [i \in Slots |-> <<>>]
  /\ cursor = [i \in Slots |-> None]
  /\ all_results = [i \in Slots |-> <<>>]
  /\ page = [i \in Slots |-> 0]
  /\ edges = [i \in Slots |-> <<>>]
  /\ nodes = [i \in Slots |-> <<>>]
  /\ logs = [i \in Slots |-> <<>>]
  /\ gen = [i \in Slots |-> chunker(<<>>)]
  /\ log_items = [i \in Slots |-> <<>>]
  /\ responses = [i \in Slots |-> <<>>]
  /\ bound = [i \in Slots |-> {}]
  /\ outcome = [i \in Slots |-> NoResponse]
  /\ apiRequests = [i \in Slots |-> <<>>]
  /\ apiResponses = [i \in Slots |-> <<>>]
  /\ ddRequests = [i \in Slots |-> <<>>]
  /\ ddAnswers = [i \in Slots |-> <<>>]
  /\ yielded = [i \in Slots |-> 0]

\* The process has started: its environment is fixed, no delivery yet.
Init ==
  /\ env \in Environments
  /\ IdleSlots
  /\ call = NoCall

\* --------------------------------------------------------- webhook_handler

\* The invocation in slot i ends: the caller is answered r.
Finish(i, r) ==
  /\ pc' = [pc EXCEPT ![i] = "done"]
  /\ outcome' = [outcome EXCEPT ![i] = r]

\* A webhook delivery reaches the endpoint.
Arrive(i) ==
  /\ pc[i] = "idle"
  /\ \E p \in Payloads : \E h \in HeaderChoices(Body(p)) :
       /\ p.data.environmentId = SlotEnvironment(i)
       /\ request' = [request EXCEPT ![i] = [body |-> Body(p), headers |-> h]]
  /\ pc' = [pc EXCEPT ![i] = "verify"]
  /\ UNCHANGED <<env, outcome, handlerVars, queryVars, netVars, call>>

\* await verify_signature(request)
VerifySignature(i) ==
  /\ pc[i] = "verify"
  /\ LET raised == verify_signature(env, request[i]) IN
       IF raised # NoResponse
         THEN Finish(i, raised)
         ELSE /\ pc' = [pc EXCEPT ![i] = "handle"]
              /\ UNCHANGED outcome
  /\ UNCHANGED <<env, request, handlerVars, queryVars, netVars, call>>

\* event_type != WebhookEventType.STARTED
runs_pipeline(et) == PyNe(et, WebhookEventType_STARTED)

\* payload = await request.json() ... the test of the event type, and for an
\* event that runs the pipeline logs = [] and tags = {...}.
HandleEvent(i) ==
  /\ pc[i] = "handle"
  /\ LET p == JsonLoads(request[i].body)
         et == PyStr(p.eventType) IN
       /\ payload' = [payload EXCEPT ![i] = p]
       /\ event_type' = [event_type EXCEPT ![i] = et]
       /\ IF runs_pipeline(et)
            THEN /\ logs' = [logs EXCEPT ![i] = <<>>]
                 /\ tags' = [tags EXCEPT ![i] = tags_of(p)]
                 /\ bound' = [bound EXCEPT ![i] =
                                {"payload", "data", "event_type", "logs", "tags"}]
                 /\ pc' = [pc EXCEPT ![i] = "construct"]
                 /\ UNCHANGED outcome
            ELSE /\ bound' = [bound EXCEPT ![i] = {"payload", "data", "event_type"}]
                 /\ Finish(i, Success)
                 /\ UNCHANGED <<logs, tags>>
  /\ UNCHANGED <<env, request, client, variables, edges, nodes, gen, log_items,
                 responses, queryVars, netVars, call>>

\* client = DiscoveryApiClient(environment_id=...), then the call of
\* client.run_query(query=QUERY, variables={"filter": {"types": NODE_TYPES}})
\* up to the head of its loop.
ConstructClient(i) ==
  /\ pc[i] = "construct"
  /\ IF init_raises(env)
       THEN /\ Finish(i, Uncaught("ValueError"))
            /\ UNCHANGED <<client, variables, bound, queryVars>>
       ELSE /\ client' = [client EXCEPT ![i] =
                            DiscoveryApiClient(env, payload[i].data.environmentId)]
            /\ variables' = [variables EXCEPT ![i] = [filter |-> [types |-> NODE_TYPES]]]
            /\ bound' = [bound EXCEPT ![i] = @ \cup {"client"}]
            /\ cursor' = [cursor EXCEPT ![i] = None]
            /\ all_results' = [all_results EXCEPT ![i] = <<>>]
            /\ page' = [page EXCEPT ![i] = 0]
            /\ pc' = [pc EXCEPT ![i] = "query"]
            /\ UNCHANGED outcome
  /\ UNCHANGED <<env, request, payload, event_type, tags, edges, nodes, logs, gen,
                 log_items, responses, netVars, call>>

\* _run_query_with_cursor up to requests.post: the variables are updated in
\* place and the request goes out.
SendQuery(i) ==
  /\ pc[i] = "query"
  /\ Len(apiRequests[i]) < MaxPages
  /\ variables' = [variables EXCEPT ![i] =
                     updated_variables(client[i], @, cursor[i], DEFAULT_LIMIT)]
  /\ apiRequests' = [apiRequests EXCEPT ![i] =
                       Append(@, api_request(client[i], QUERY, variables[i], cursor[i],
                                             DEFAULT_LIMIT))]
  /\ pc' = [pc EXCEPT ![i] = "await_api"]
  /\ UNCHANGED <<env, request, outcome, payload, event_type, tags, client, edges, nodes,
                 logs, gen, log_items, responses, bound, queryVars, apiResponses,
                 ddRequests, ddAnswers, yielded, call>>

\* requests.post returns; raise_for_status; the rest of the loop body of
\* run_query; on an exception the handler's except clause logs and re-raises.
ReceivePage(i) ==
  /\ pc[i] = "await_api"
  /\ \E response \in ApiAnswers(apiRequests[i][Len(apiRequests[i])].json.variables.environmentId,
                                 Len(apiRequests[i])) :
       /\ apiResponses' = [apiResponses EXCEPT ![i] = Append(@, response)]
       /\ IF raise_for_status(response)
            THEN /\ Finish(i, Uncaught("HTTPError"))
                 /\ cursor' = [cursor EXCEPT ![i] = None]
                 /\ all_results' = [all_results EXCEPT ![i] = <<>>]
                 /\ page' = [page EXCEPT ![i] = 0]
                 /\ UNCHANGED <<edges, bound>>
            ELSE LET api_response == response.json
                     next_cursor == get_next_page_cursor(api_response)
                     results == extract_query_results(api_response) IN
                   IF loop_breaks(next_cursor)
                     THEN /\ edges' = [edges EXCEPT ![i] = extend(all_results[i], results)]
                          /\ bound' = [bound EXCEPT ![i] = @ \cup {"edges"}]
                          /\ cursor' = [cursor EXCEPT ![i] = None]
                          /\ all_results' = [all_results EXCEPT ![i] = <<>>]
                          /\ page' = [page EXCEPT ![i] = 0]
                          /\ pc' = [pc EXCEPT ![i] = "extract"]
                          /\ UNCHANGED outcome
                     ELSE /\ cursor' = [cursor EXCEPT ![i] = next_cursor]
                          /\ all_results' = [all_results EXCEPT ![i] = extend(@, results)]
                          /\ page' = [page EXCEPT ![i] = @ + 1]
                          /\ pc' = [pc EXCEPT ![i] = "query"]
                          /\ UNCHANGED <<outcome, edges, bound>>
  /\ UNCHANGED <<env, request, payload, event_type, tags, client, variables, nodes, logs,
                 gen, log_items, responses, apiRequests, ddRequests, ddAnswers, yielded,
                 call>>

\* nodes = get_run_metadata(edges, int(data["runId"]))
Extract(i) ==
  /\ pc[i] = "extract"
  /\ LET text == payload[i].data.runId IN
       IF ~IntParses(text)
         THEN /\ Finish(i, Uncaught("ValueError"))
              /\ UNCHANGED <<nodes, bound>>
         ELSE /\ nodes' = [nodes EXCEPT ![i] = get_run_metadata(edges[i], IntOf(text))]
              /\ bound' = [bound EXCEPT ![i] = @ \cup {"nodes"}]
              /\ pc' = [pc EXCEPT ![i] = "build"]
              /\ UNCHANGED outcome
  /\ UNCHANGED <<env, request, payload, event_type, tags, client, variables, edges, logs,
                 gen, log_items, responses, queryVars, netVars, call>>

\* The loop that appends one HTTPLogItem per node; responses = []; the
\* generator chunker(logs) is created.
BuildLogs(i) ==
  /\ pc[i] = "build"
  /\ LET all_logs == logs[i] \o build_logs(nodes[i], tags[i], client[i]) IN
       /\ logs' = [logs EXCEPT ![i] = all_logs]
       /\ gen' = [gen EXCEPT ![i] = chunker(all_logs)]
  /\ responses' = [responses EXCEPT ![i] = <<>>]
  /\ bound' = [bound EXCEPT ![i] = @ \cup {"responses"}]
  /\ pc' = [pc EXCEPT ![i] = "next_chunk"]
  /\ UNCHANGED <<env, request, outcome, payload, event_type, tags, client, variables,
                 edges, nodes, log_items, queryVars, netVars, call>>

\* The head of "for log_items in chunker(logs)": the generator yields the
\* next slice, or is exhausted and the handler returns {"status": "success"}.
NextChunk(i) ==
  /\ pc[i] = "next_chunk"
  /\ IF gen_exhausted(gen[i])
       THEN /\ Finish(i, Success)
            /\ UNCHANGED <<gen, log_items, yielded>>
       ELSE /\ log_items' = [log_items EXCEPT ![i] = chunk_at(logs[i], gen[i].pos)]
            /\ gen' = [gen EXCEPT ![i] = gen_advance(@)]
            /\ yielded' = [yielded EXCEPT ![i] = @ + 1]
            /\ pc' = [pc EXCEPT ![i] = "submit"]
            /\ UNCHANGED outcome
  /\ UNCHANGED <<env, request, payload, event_type, tags, client, variables, edges, nodes,
                 logs, responses, bound, queryVars, apiRequests, apiResponses, ddRequests,
                 ddAnswers, call>>

\* logs_api.submit_log(body=HTTPLog(log_items)) goes out.
SubmitLog(i) ==
  /\ pc[i] = "submit"
  /\ ddRequests' = [ddRequests EXCEPT ![i] = Append(@, log_items[i])]
  /\ pc' = [pc EXCEPT ![i] = "await_dd"]
  /\ UNCHANGED <<env, request, outcome, handlerVars, queryVars, apiRequests, apiResponses,
                 ddAnswers, yielded, call>>

\* submit_log raises out of the handler (nothing catches it).
submit_is_fatal_MutCheckEnabled(answer) == answer # "accepted"

submit_is_fatal(answer) == answer = "exception"

\* submit_log returns or raises; a returned response is appended to
\* responses and logged.
DatadogAnswer(i) ==
  /\ pc[i] = "await_dd"
  /\ \E answer \in DatadogAnswers :
       /\ ddAnswers' = [ddAnswers EXCEPT ![i] = Append(@, answer)]
       /\ IF submit_is_fatal(answer)
            THEN /\ Finish(i, Uncaught("ApiException"))
                 /\ UNCHANGED responses
            ELSE /\ responses' = [responses EXCEPT ![i] = Append(@, answer)]
                 /\ pc' = [pc EXCEPT ![i] = "next_chunk"]
                 /\ UNCHANGED outcome
  /\ UNCHANGED <<env, request, payload, event_type, tags, client, variables, edges, nodes,
                 logs, gen, log_items, bound, queryVars, apiRequests, apiResponses,
                 ddRequests, yielded, call>>

\* One step of the invocation in slot i.
Invocation(i) ==
  \/ Arrive(i)
  \/ VerifySignature(i)
  \/ HandleEvent(i)
  \/ ConstructClient(i)
  \/ SendQuery(i)
  \/ ReceivePage(i)
  \/ Extract(i)
  \/ BuildLogs(i)
  \/ NextChunk(i)
  \/ SubmitLog(i)
  \/ DatadogAnswer(i)

\* One delivery, handled from arrival to its answer.
Next == Invocation(1)

Spec == Init /\ [][Next]_vars

\* The pages the API gives hold one or two resources.
ShortPages ==
  \A i \in Slots : \A n \in 1..Len(apiResponses[i]) :
    Len(resources_of(apiResponses[i][n].json).edges) <= 2

\* One delivery handled against an API that gives short pages.
NextLive ==
  \/ Arrive(1)
  \/ VerifySignature(1)
  \/ HandleEvent(1)
  \/ ConstructClient(1)
  \/ SendQuery(1)
  \/ ReceivePage(1) /\ ShortPages'
  \/ Extract(1)
  \/ BuildLogs(1)
  \/ NextChunk(1)
  \/ SubmitLog(1)
  \/ DatadogAnswer(1)

\* The handler's steps are taken and every request sent is answered: a step
\* that can be taken is taken eventually.  The API ends the pagination by
\* page MaxPages at the latest (ApiAnswers).
SpecLive == Init /\ [][NextLive]_vars /\ WF_vars(NextLive)

\* ------------------------------------------- get_run_metadata on its own

Node1 == [resourceType |-> "Model", uniqueId |-> "n1",
          modelExecutionInfo |-> ExecutionInfo(55)]

Node2 == [resourceType |-> "Test", uniqueId |-> "n2",
          testExecutionInfo |-> ExecutionInfo(56)]

\* A resource that never ran: its execution info is null.
Node3 == [resourceType |-> "Seed", uniqueId |-> "n3", seedExecutionInfo |-> JsonNull]

\* No execution info field at all.
Node4 == [resourceType |-> "Snapshot", uniqueId |-> "n4"]

\* An empty resourceType.
Node5 == [resourceType |-> "", uniqueId |-> "n5",
          modelExecutionInfo |-> ExecutionInfo(55)]

\* No resourceType field.
Node6 == [uniqueId |-> "n6", modelExecutionInfo |-> ExecutionInfo(55)]

\* The execution info of run 55 under another type's key.
Node7 == [resourceType |-> "Model", uniqueId |-> "n7",
          testExecutionInfo |-> ExecutionInfo(55)]

\* An empty execution info record.
Node8 == [resourceType |-> "seed", uniqueId |-> "n8", seedExecutionInfo |-> <<>>]

\* An empty resourceType and the execution info of run 55 under the key
\* that an empty type would give.
Node9 == [resourceType |-> "", uniqueId |-> "n9", ExecutionInfo |-> ExecutionInfo(55)]

\* More fields: a name, and the execution info of another run under
\* another type's key.
Node10 == [resourceType |-> "Model", uniqueId |-> "n10", name |-> "orders",
           modelExecutionInfo |-> ExecutionInfo(55),
           testExecutionInfo |-> ExecutionInfo(56)]

NodePool == {Node1, Node2, Node3, Node4, Node5, Node6, Node7, Node8, Node9, Node10}

EdgeLists == UNION {[1..n -> {[node |-> nd] : nd \in NodePool}] : n \in 0..MaxEdges}

TargetRunIds == {55, 56}

UnsetEnvironment ==
  [DBT_CLOUD_SERVICE_TOKEN |-> None, DBT_CLOUD_WEBHOOK_SECRET |-> None,
   DBT_CLOUD_METADATA_URL |-> None]

\* get_run_metadata is about to be called on an edge list and a run id.
InitExtract ==
  /\ env = UnsetEnvironment
  /\ IdleSlots
  /\ \E es \in EdgeLists : \E r \in TargetRunIds :
       call = [op |-> "get_run_metadata", edges |-> es, run_id |-> r,
               returned |-> FALSE, result |-> <<>>]

\* The call returns.
CallGetRunMetadata ==
  /\ call.op = "get_run_metadata"
  /\ ~call.returned
  /\ call' = [call EXCEPT !.returned = TRUE,
                          !.result = get_run_metadata(call.edges, call.run_id)]
  /\ UNCHANGED <<env, pc, request, outcome, handlerVars, queryVars, netVars>>

NextExtract == CallGetRunMetadata

SpecExtract == InitExtract /\ [][NextExtract]_vars

\* ----------------------------------------------------- chunker on its own

\* chunker(seq) has been called on a sequence of N log items; nothing has
\* been taken from the generator yet.
InitChunk ==
  /\ env = UnsetEnvironment
  /\ IdleSlots
  /\ \E n \in 0..MaxSeqLen :
       call = [op |-> "chunker", seq |-> [k \in 1..n |-> k],
               gen |-> chunker([k \in 1..n |-> k]), out |-> <<>>,
               exhausted |-> FALSE]

\* next() on the generator: one more slice, or StopIteration.
CallNext ==
  /\ call.op = "chunker"
  /\ ~call.exhausted
  /\ IF gen_exhausted(call.gen)
       THEN call' = [call EXCEPT !.exhausted = TRUE]
       ELSE call' = [call EXCEPT !.out = Append(@, chunk_at(call.seq, call.gen.pos)),
                                 !.gen = gen_advance(@)]
  /\ UNCHANGED <<env, pc, request, outcome, handlerVars, queryVars, netVars>>

NextChunkerCall == CallNext

SpecChunk == InitChunk /\ [][NextChunkerCall]_vars

\* ------------------------------------------- two deliveries in flight

ConfiguredEnvironment ==
  [DBT_CLOUD_SERVICE_TOKEN |-> "tok", DBT_CLOUD_WEBHOOK_SECRET |-> "s3cret",
   DBT_CLOUD_METADATA_URL |-> None]

\* The delivery slot i handles: a completed run of its environment, run
\* "55" in slot 1 and run "056" in the others, correctly signed.
TwoPayload(i) ==
  Payload("job.run.completed", IF i = 1 THEN "55" ELSE "056", SlotEnvironment(i))

TwoRequest(i) ==
  [body |-> Body(TwoPayload(i)),
   headers |-> [authorization |-> hmac_hexdigest("s3cret", Body(TwoPayload(i)))]]

\* What the two deliveries meet: the API answers with pages of one or two
\* resources and a pageInfo that has both fields, or with status 500; a
\* submission is accepted or raises.
TwoScenario ==
  \A i \in Slots :
    /\ request[i] \in {NoRequest, TwoRequest(i)}
    /\ \A n \in 1..Len(apiResponses[i]) :
         LET resources == resources_of(apiResponses[i][n].json) IN
           \/ apiResponses[i][n].status_code = 500
           \/ /\ Len(resources.edges) <= 2
              /\ "hasNextPage" \in DOMAIN resources.pageInfo
              /\ StrTruthy(resources.pageInfo.endCursor)
    /\ \A k \in 1..Len(ddAnswers[i]) : ddAnswers[i][k] \in {"accepted", "exception"}

\* The service is configured and no delivery has arrived yet.
InitTwo ==
  /\ env = ConfiguredEnvironment
  /\ IdleSlots
  /\ call = NoCall

\* One step of one of the invocations, in any order.
NextTwo ==
  \E i \in Slots :
    \/ Arrive(i) /\ TwoScenario'
    \/ VerifySignature(i)
    \/ HandleEvent(i)
    \/ ConstructClient(i)
    \/ SendQuery(i)
    \/ ReceivePage(i) /\ TwoScenario'
    \/ Extract(i)
    \/ BuildLogs(i)
    \/ NextChunk(i)
    \/ SubmitLog(i)
    \/ DatadogAnswer(i) /\ TwoScenario'

SpecTwo == InitTwo /\ [][NextTwo]_vars

\* ----------------------------------------------------------------- claims

\* The answer says that a next page exists (hasNextPage present and true).
SaysNext(response) ==
  LET pg == resources_of(response.json).pageInfo IN
    "hasNextPage" \in DOMAIN pg /\ pg.hasNextPage

EndCursorOf(response) == resources_of(response.json).pageInfo.endCursor

\* The answer carries a status outside 2xx.
NonSuccess(response) == response.status_code \notin 200..299

\* The edges of the answers, page after page.
RECURSIVE ConcatEdges(_)
ConcatEdges(rs) ==
  IF rs = <<>> THEN <<>>
  ELSE resources_of(rs[1].json).edges \o ConcatEdges(Tail(rs))

\* run_query has returned to the handler in slot i.
Returned(i) == "edges" \in bound[i]

\* ceil(n / d)
CeilDiv(n, d) == IF n % d = 0 THEN n \div d ELSE (n \div d) + 1

\* The payload of the delivery in slot i once the handler has parsed it.
Parsed(i) == "payload" \in bound[i]

\* C1 (as claimed): after a verified job.run.started delivery (the service
\* token being configured) no request goes to the metadata API, nothing is
\* extracted, no batch is submitted, and the handler answers success.
C1_StartedSkipsPipeline ==
  \A i \in Slots :
    (/\ Parsed(i)
     /\ payload[i].eventType = "job.run.started"
     /\ env.DBT_CLOUD_SERVICE_TOKEN # None)
    => /\ apiRequests[i] = <<>>
       /\ "nodes" \notin bound[i]
       /\ ddRequests[i] = <<>>
       /\ pc[i] = "done" => outcome[i] = Success

\* C2 (as claimed): run_query returns at the first answer whose hasNextPage
\* is false, page k, all answers before it having said hasNextPage = true;
\* it has then sent exactly k requests and returns the edges of pages 1..k
\* in page order and within-page order.
C2_ReturnsAtFirstPageWithoutNext ==
  \A i \in Slots :
    Returned(i) =>
      LET k == Len(apiResponses[i]) IN
        /\ k >= 1
        /\ ~SaysNext(apiResponses[i][k])
        /\ \A n \in 1..(k - 1) : SaysNext(apiResponses[i][n])
        /\ Len(apiRequests[i]) = k
        /\ edges[i] = ConcatEdges(apiResponses[i])

\* An answer after which run_query asks for another page: a next page is
\* announced and the end cursor is a non-empty text.
Continues(response) == SaysNext(response) /\ StrTruthy(EndCursorOf(response))

\* C2 (amended): when pages 1..k-1 are answered with hasNextPage = true and
\* a non-empty endCursor, and page k is the first answered otherwise
\* (hasNextPage false or absent, or endCursor null or empty), run_query
\* sends exactly k requests and returns the edges of pages 1..k in order.
C2_PaginationCollectsAllPages ==
  \A i \in Slots :
    Returned(i) =>
      LET k == Len(apiResponses[i]) IN
        /\ k >= 1
        /\ ~Continues(apiResponses[i][k])
        /\ \A n \in 1..(k - 1) : Continues(apiResponses[i][n])
        /\ Len(apiRequests[i]) = k
        /\ edges[i] = ConcatEdges(apiResponses[i])

C2_Witness ==
  \E i \in Slots :
    /\ Returned(i)
    /\ Len(apiResponses[i]) = 3
    /\ Len(edges[i]) = DEFAULT_LIMIT + 2 + DEFAULT_LIMIT

\* C3: the requests of one run_query call go out one at a time: at most one
\* request is unanswered; the first carries after = null; request n+1
\* carries the endCursor of answer n, which has been received, was a
\* success and announced a next page (so nothing is sent after an answer
\* whose hasNextPage is false or absent).
C3_RequestsAreSequential ==
  \A i \in Slots :
    LET rq == apiRequests[i]
        rs == apiResponses[i] IN
      /\ Len(rs) <= Len(rq)
      /\ Len(rq) <= Len(rs) + 1
      /\ (pc[i] = "await_api") = (Len(rq) = Len(rs) + 1)
      /\ Len(rq) >= 1 => rq[1].json.variables.after = None
      /\ \A n \in 1..(Len(rq) - 1) :
           /\ ~NonSuccess(rs[n])
           /\ SaysNext(rs[n])
           /\ rq[n + 1].json.variables.after = EndCursorOf(rs[n])

C3_Witness ==
  \E i \in Slots :
    /\ Len(apiRequests[i]) = 3
    /\ Len(apiResponses[i]) = 2
    /\ apiRequests[i][3].json.variables.after = CursorOf(10, 2)

\* C4: an answer with a non-success status is the last thing run_query
\* receives: no request follows it (no retry), no edges reach the handler
\* (those of earlier pages included), nothing is extracted, no batch is
\* submitted, and the invocation has ended with a server error, not with
\* the success response.
C4_FetchErrorAbortsInvocation ==
  \A i \in Slots :
    \A n \in 1..Len(apiResponses[i]) :
      NonSuccess(apiResponses[i][n]) =>
        /\ n = Len(apiResponses[i])
        /\ Len(apiRequests[i]) = n
        /\ ~Returned(i)
        /\ edges[i] = <<>>
        /\ all_results[i] = <<>>
        /\ "nodes" \notin bound[i]
        /\ nodes[i] = <<>>
        /\ ddRequests[i] = <<>>
        /\ pc[i] = "done"
        /\ outcome[i] = Uncaught("HTTPError")
        /\ outcome[i] # Success

C4_Witness ==
  \E i \in Slots :
    /\ Len(apiResponses[i]) = 2
    /\ ~NonSuccess(apiResponses[i][1])
    /\ resources_of(apiResponses[i][1].json).edges # <<>>
    /\ NonSuccess(apiResponses[i][2])
    /\ pc[i] = "done"

\* A node is in run: its resource type is not empty, the field named after
\* the lower-cased type plus "ExecutionInfo" holds a record, and that
\* record's lastRunId is the target.
IsInRun(node, target) ==
  /\ "resourceType" \in DOMAIN node
  /\ node.resourceType # ""
  /\ LET field == Lower(node.resourceType) \o "ExecutionInfo" IN
       /\ field \in DOMAIN node
       /\ node[field] # JsonNull
       /\ "lastRunId" \in DOMAIN node[field]
       /\ node[field].lastRunId = target

\* C5: get_run_metadata returns the nodes in run and only those, in edge
\* order: as many records as there are edges in run, the record at rank r
\* being the r-th edge in run; the output is no longer than the input and
\* every record's executionInfo.lastRunId is the target.
C5_ExtractionIsTheInRunSubsequence ==
  (call.op = "get_run_metadata" /\ call.returned) =>
    LET es == call.edges
        out == call.result
        hit == {m \in 1..Len(es) : IsInRun(es[m].node, call.run_id)}
        rank(m) == Cardinality({h \in hit : h <= m}) IN
      /\ Len(out) = Cardinality(hit)
      /\ Len(out) <= Len(es)
      /\ \A m \in hit : out[rank(m)].uniqueId = es[m].node.uniqueId
      /\ \A j \in 1..Len(out) : out[j].executionInfo.lastRunId = call.run_id

C5_Witness ==
  /\ call.op = "get_run_metadata"
  /\ call.returned
  /\ call.run_id = 55
  /\ call.edges = <<[node |-> Node2], [node |-> Node1], [node |-> Node1]>>
  /\ Len(call.result) = 2

\* The concatenation of a sequence of batches.
RECURSIVE Flatten(_)
Flatten(bs) == IF bs = <<>> THEN <<>> ELSE bs[1] \o Flatten(Tail(bs))

\* C6: for a sequence of N items the generator yields ceil(N/1000) batches,
\* each of exactly 1000 items but the last, which holds 1 to 1000; N = 0
\* yields none; the batches concatenated in order are the sequence.
C6_ChunkerPartitions ==
  (call.op = "chunker" /\ call.exhausted) =>
    LET n == Len(call.seq)
        out == call.out IN
      /\ Len(out) = CeilDiv(n, 1000)
      /\ \A k \in 1..(Len(out) - 1) : Len(out[k]) = 1000
      /\ Len(out) > 0 => Len(out[Len(out)]) \in 1..1000
      /\ n = 0 => out = <<>>
      /\ Flatten(out) = call.seq

C6_Witness ==
  /\ call.op = "chunker"
  /\ call.exhausted
  /\ Len(call.seq) = 2001
  /\ Len(call.out) = 3

\* The batches of the logs of slot i, as indices: batch k is the slice of
\* logs that starts after (k-1)*1000 items.
BatchOf(i, k) ==
  SubSeq(logs[i], (k - 1) * 1000 + 1, Min(k * 1000, Len(logs[i])))

\* A submission that failed: it did not report acceptance.
Failed(answer) == answer # "accepted"

BadSignature(i) ==
  \/ "authorization" \notin DOMAIN request[i].headers
  \/ env.DBT_CLOUD_WEBHOOK_SECRET = None
  \/ request[i].headers.authorization
       # hmac_hexdigest(env.DBT_CLOUD_WEBHOOK_SECRET, request[i].body)

\* C8: a delivery with a missing or wrong authorization header is rejected
\* by verify_signature (HTTP 400 when the header is missing or empty, 401
\* when it does not match) before the payload is parsed: no request to the
\* metadata API, no extraction, no batch, no success response.
C8_BadSignatureIsRejected ==
  \A i \in Slots :
    (pc[i] \notin {"idle", "verify"} /\ BadSignature(i)) =>
      /\ pc[i] = "done"
      /\ outcome[i].status \in {400, 401}
      /\ (authorization_of(request[i]) \in {None, ""}) => outcome[i].status = 400
      /\ (/\ authorization_of(request[i]) \notin {None, ""}
          /\ env.DBT_CLOUD_WEBHOOK_SECRET \notin {None, ""})
         => outcome[i] = HTTPException(401, "Invalid signature")
      /\ ~Parsed(i)
      /\ bound[i] = {}
      /\ apiRequests[i] = <<>>
      /\ nodes[i] = <<>>
      /\ ddRequests[i] = <<>>
      /\ outcome[i] # Success

C8_Witness ==
  \E i \in Slots :
    /\ pc[i] = "done"
    /\ env.DBT_CLOUD_WEBHOOK_SECRET = "s3cret"
    /\ request[i].headers = [authorization |-> hmac_hexdigest("s3cret", request[i].body \o " ")]
    /\ outcome[i].status = 401

\* C9 (as claimed): with the service token or the webhook secret missing,
\* the invocation ends with a 5xx answer and no network call was made.
C9_MissingConfigIsServerError ==
  \A i \in Slots :
    (/\ pc[i] = "done"
     /\ \/ env.DBT_CLOUD_SERVICE_TOKEN = None
        \/ env.DBT_CLOUD_WEBHOOK_SECRET = None) =>
      /\ outcome[i].status >= 500
      /\ apiRequests[i] = <<>>
      /\ ddRequests[i] = <<>>

\* C9 (amended): with the service token missing no network call is ever
\* made, and an invocation that passed verification for a completed or
\* errored run ends with a server error (the ValueError of the client's
\* constructor); with the webhook secret missing no network call is ever
\* made and every invocation ends rejected with HTTP 400, unparsed.
C9_MissingConfigFailsBeforeNetwork ==
  \A i \in Slots :
    /\ env.DBT_CLOUD_SERVICE_TOKEN = None =>
         /\ apiRequests[i] = <<>>
         /\ ddRequests[i] = <<>>
         /\ (/\ pc[i] = "done"
             /\ Parsed(i)
             /\ payload[i].eventType # "job.run.started")
            => /\ outcome[i] = Uncaught("ValueError")
               /\ outcome[i].status >= 500
    /\ env.DBT_CLOUD_WEBHOOK_SECRET = None =>
         /\ apiRequests[i] = <<>>
         /\ ddRequests[i] = <<>>
         /\ ~Parsed(i)
         /\ pc[i] = "done" =>
              outcome[i] = HTTPException(400, "Missing signature or secret")

C9_Witness ==
  \E i \in Slots :
    /\ pc[i] = "done"
    /\ env.DBT_CLOUD_SERVICE_TOKEN = None
    /\ Parsed(i)
    /\ payload[i].eventType = "job.run.completed"
    /\ outcome[i] = Uncaught("ValueError")

\* The fetch of slot i is over: every request is answered and the last
\* answer ends the pagination.
FetchComplete(i) ==
  /\ Returned(i)
  /\ Len(apiResponses[i]) >= 1
  /\ Len(apiRequests[i]) = Len(apiResponses[i])
  /\ ~Continues(apiResponses[i][Len(apiResponses[i])])

\* C10 (as claimed): extraction starts after the last page was received,
\* no batch is built before extraction is done, and once a batch has been
\* dispatched all batches of the invocation have been built.
C10_AllBatchesBuiltBeforeDispatch ==
  \A i \in Slots :
    /\ "nodes" \in bound[i] => FetchComplete(i)
    /\ yielded[i] > 0 => "nodes" \in bound[i]
    /\ ddRequests[i] # <<>> => yielded[i] = CeilDiv(Len(logs[i]), 1000)

\* C10 (amended): extraction starts after the last page was received; log
\* items and batches are built only after extraction; the first batch is
\* sliced when all log items (one per extracted node) exist; batches are
\* sliced one at a time, batch n+1 only after the submission of batch n has
\* returned, each being dispatched before the next is sliced.
C10_StagesInOrderBatchesLazy ==
  \A i \in Slots :
    /\ "nodes" \in bound[i] => FetchComplete(i)
    /\ (logs[i] # <<>> \/ yielded[i] > 0) => "nodes" \in bound[i]
    /\ yielded[i] > 0 => ("responses" \in bound[i] /\ Len(logs[i]) = Len(nodes[i]))
    /\ Len(ddRequests[i]) <= yielded[i]
    /\ yielded[i] <= Len(ddRequests[i]) + 1
    /\ yielded[i] <= Len(responses[i]) + 1
    /\ yielded[i] <= CeilDiv(Len(logs[i]), 1000)

C10_Witness ==
  \E i \in Slots :
    /\ yielded[i] = 2
    /\ Len(ddRequests[i]) = 2
    /\ Len(responses[i]) = 1
    /\ Len(log_items[i]) = 1

\* The pipeline of slot i has run to its end: the pagination is over, the
\* nodes are extracted, there is one log item per node, and every batch of
\* the logs has been submitted, in order, and its submission has returned.
PipelineComplete(i) ==
  /\ FetchComplete(i)
  /\ "nodes" \in bound[i]
  /\ Len(logs[i]) = Len(nodes[i])
  /\ Len(ddRequests[i]) = CeilDiv(Len(logs[i]), 1000)
  /\ \A k \in 1..Len(ddRequests[i]) : ddRequests[i][k] = BatchOf(i, k)
  /\ Len(ddAnswers[i]) = Len(ddRequests[i])
  /\ \A k \in 1..Len(ddAnswers[i]) : ddAnswers[i][k] # "exception"

\* The pipeline of slot i was skipped for a start event.
SkippedForStart(i) ==
  /\ Parsed(i)
  /\ payload[i].eventType = "job.run.started"
  /\ apiRequests[i] = <<>>
  /\ ddRequests[i] = <<>>

\* C11: the success response is given only by an invocation that has ended
\* with its pipeline complete (all pages fetched, nodes extracted, every
\* batch dispatched) or skipped for a start event; a failure of the fetch (a
\* non-success answer), of the extraction (a run id that is no integer) or
\* of a dispatch that raises ends the invocation with status 500, never
\* with success.
C11_SuccessOnlyAfterPipeline ==
  \A i \in Slots :
    /\ outcome[i] = Success =>
         /\ pc[i] = "done"
         /\ PipelineComplete(i) \/ SkippedForStart(i)
    /\ (\E n \in 1..Len(apiResponses[i]) : NonSuccess(apiResponses[i][n])) =>
         /\ pc[i] = "done"
         /\ outcome[i].status = 500
    /\ (Returned(i) /\ pc[i] # "extract" /\ ~IntParses(payload[i].data.runId)) =>
         /\ pc[i] = "done"
         /\ outcome[i].status = 500
         /\ "nodes" \notin bound[i]
    /\ (\E k \in 1..Len(ddAnswers[i]) : ddAnswers[i][k] = "exception") =>
         /\ pc[i] = "done"
         /\ outcome[i].status = 500

C11_Witness ==
  \E i \in Slots :
    /\ outcome[i] = Success
    /\ Len(apiResponses[i]) = 3
    /\ Len(logs[i]) = 2 * DEFAULT_LIMIT + 1
    /\ Len(ddRequests[i]) = 2

\* The log items handed to submit_log by slot i so far, in order.
Dispatched(i) == Flatten(ddRequests[i])

\* C12: for a completed or errored run event the log items dispatched so
\* far are the first log items built, in order; when the invocation has
\* ended they are log items of the nodes extraction returned, the item at
\* rank j carrying node j and every node being of the run of the payload,
\* and if it ended with success they are exactly one item per node; a
\* payload with runId "55" and a one-page answer holding one Model node of
\* run 55 gives one log item, one batch and one dispatch call.
C12_OneLogItemPerExtractedNode ==
  \A i \in Slots :
    (Parsed(i) /\ payload[i].eventType \in {"job.run.completed", "job.run.errored"}) =>
      /\ Len(Dispatched(i)) <= Len(logs[i])
      /\ Dispatched(i) = SubSeq(logs[i], 1, Len(Dispatched(i)))
      /\ (pc[i] = "done" /\ ddRequests[i] # <<>>) =>
           /\ "nodes" \in bound[i]
           /\ Len(logs[i]) = Len(nodes[i])
           /\ \A run_id \in {IntOf(payload[i].data.runId)} :
                \A j \in 1..Len(nodes[i]) :
                  /\ logs[i][j].message = json_dumps(nodes[i][j])
                  /\ nodes[i][j].executionInfo.lastRunId = run_id
      /\ outcome[i] = Success =>
           /\ Dispatched(i) = logs[i]
           /\ Len(Dispatched(i)) = Len(nodes[i])
      /\ (/\ outcome[i] = Success
          /\ payload[i].data.runId = "55"
          /\ Len(apiResponses[i]) = 1
          /\ resources_of(apiResponses[i][1].json).edges
               = <<[node |-> ModelNode(10, 1, 1, 55)]>>)
         => /\ Len(logs[i]) = 1
            /\ yielded[i] = 1
            /\ Len(ddRequests[i]) = 1
            /\ Len(ddRequests[i][1]) = 1

C12_Witness ==
  \E i \in Slots :
    /\ outcome[i] = Success
    /\ payload[i].eventType = "job.run.completed"
    /\ payload[i].data.runId = "55"
    /\ Len(apiResponses[i]) = 1
    /\ resources_of(apiResponses[i][1].json).edges = <<[node |-> ModelNode(10, 1, 1, 55)]>>
    /\ Len(ddRequests[i]) = 1

\* The node has no resourceType field, or an empty one.
Untyped(node) == "resourceType" \notin DOMAIN node \/ node.resourceType = ""

\* C13: a node whose resourceType is empty or missing is in no output of
\* get_run_metadata, whatever its other fields; the call returns all the
\* same, and the other nodes are treated as if the node were not there:
\* each of them that is in run is in the output, in edge order, and the
\* output holds nothing else.
C13_UntypedNodeIsSkipped ==
  (call.op = "get_run_metadata" /\ call.returned) =>
    LET es == call.edges
        out == call.result
        untyped == {m \in 1..Len(es) : Untyped(es[m].node)}
        others == {m \in 1..Len(es) : ~Untyped(es[m].node) /\ IsInRun(es[m].node, call.run_id)}
        rank(m) == Cardinality({h \in others : h <= m}) IN
      /\ \A m \in untyped : \A j \in 1..Len(out) : out[j].uniqueId # es[m].node.uniqueId
      /\ Len(out) = Cardinality(others)
      /\ \A m \in others : out[rank(m)].uniqueId = es[m].node.uniqueId

C13_Witness ==
  /\ call.op = "get_run_metadata"
  /\ call.returned
  /\ call.run_id = 55
  /\ call.edges = <<[node |-> Node9], [node |-> Node1], [node |-> Node6]>>
  /\ Len(call.result) = 1
  /\ call.result[1].uniqueId = "n1"

\* C14: when run_query has returned and no edge is in the run of the
\* payload, extraction gives the empty sequence without an error, there is
\* no log item, the generator yields no batch, nothing is handed to
\* submit_log, and the invocation ends with the success response.
C14_NoMatchIsSuccessWithoutDispatch ==
  \A i \in Slots :
    (/\ Returned(i)
     /\ pc[i] # "extract"
     /\ IntParses(payload[i].data.runId)
     /\ \A run_id \in {IntOf(payload[i].data.runId)} :
          \A m \in 1..Len(edges[i]) : ~IsInRun(edges[i][m].node, run_id))
    => /\ "nodes" \in bound[i]
       /\ nodes[i] = <<>>
       /\ logs[i] = <<>>
       /\ yielded[i] = 0
       /\ ddRequests[i] = <<>>
       /\ pc[i] \in {"build", "next_chunk", "done"}
       /\ pc[i] = "done" => outcome[i] = Success

C14_Witness ==
  \E i \in Slots :
    /\ pc[i] = "done"
    /\ outcome[i] = Success
    /\ payload[i].data.runId = "056"
    /\ Len(edges[i]) = 2 + DEFAULT_LIMIT
    /\ nodes[i] = <<>>
    /\ ddRequests[i] = <<>>

\* C15: the record get_run_metadata gives for an edge in run has the keys
\* of the node but the key named after the lower-cased resource type plus
\* "ExecutionInfo", and the key executionInfo; each key kept has the value
\* it has in the node; executionInfo has the value the node has under the
\* removed key.
C15_RecordIsNodeWithRenamedKey ==
  (call.op = "get_run_metadata" /\ call.returned) =>
    LET es == call.edges
        out == call.result
        hit == {m \in 1..Len(es) : IsInRun(es[m].node, call.run_id)}
        rank(m) == Cardinality({h \in hit : h <= m}) IN
      \A m \in hit :
        LET node == es[m].node
            removed == Lower(node.resourceType) \o "ExecutionInfo"
            record == out[rank(m)] IN
          /\ DOMAIN record = (DOMAIN node \ {removed}) \cup {"executionInfo"}
          /\ \A k \in DOMAIN node \ {removed} : record[k] = node[k]
          /\ record.executionInfo = node[removed]

C15_Witness ==
  /\ call.op = "get_run_metadata"
  /\ call.returned
  /\ call.run_id = 55
  /\ call.edges = <<[node |-> Node10], [node |-> Node2], [node |-> Node1]>>
  /\ Len(call.result) = 2
  /\ call.result[1] = [resourceType |-> "Model", uniqueId |-> "n10", name |-> "orders",
                        testExecutionInfo |-> ExecutionInfo(56),
                        executionInfo |-> ExecutionInfo(55)]

\* Everything the invocation in slot j holds.
SlotState(j) ==
  <<pc[j], request[j], outcome[j], payload[j], event_type[j], tags[j], client[j],
    variables[j], cursor[j], all_results[j], page[j], edges[j], nodes[j], logs[j],
    gen[j], log_items[j], responses[j], bound[j], apiRequests[j], apiResponses[j],
    ddRequests[j], ddAnswers[j], yielded[j]>>

\* The invocation in slot i works on its own delivery only: each request
\* names the environment of its delivery, the first with after = null and
\* each later one with the end cursor of its own previous answer; the pages
\* it gets are of that environment; the log items it has dispatched are
\* the first of those built from the nodes, among its own pages, of the
\* run of its delivery, with the tags of its delivery.
WorksOnOwnDelivery(i) ==
  pc[i] # "idle" =>
    LET p == JsonLoads(request[i].body)
        rq == apiRequests[i]
        rs == apiResponses[i] IN
      /\ \A n \in 1..Len(rq) :
           /\ rq[n].json.variables.environmentId = p.data.environmentId
           /\ rq[n].json.variables.after =
                IF n = 1 THEN None ELSE EndCursorOf(rs[n - 1])
      /\ \A n \in 1..Len(rs) :
           \A m \in 1..Len(resources_of(rs[n].json).edges) :
             resources_of(rs[n].json).edges[m].node.environmentId = p.data.environmentId
      /\ ddRequests[i] # <<>> =>
           LET own == build_logs(get_run_metadata(ConcatEdges(rs), IntOf(p.data.runId)),
                                 tags_of(p),
                                 [environment_id |-> p.data.environmentId,
                                  token |-> env.DBT_CLOUD_SERVICE_TOKEN,
                                  url |-> DEFAULT_URL]) IN
             /\ Len(Dispatched(i)) <= Len(own)
             /\ Dispatched(i) = SubSeq(own, 1, Len(Dispatched(i)))

\* C16: in every interleaving of two invocations with different run ids
\* and environments, each invocation works on its own delivery only (its
\* environment, its cursor, the nodes of its run, its tags), and a step of
\* one invocation changes nothing the other holds (cursor, accumulated
\* edges, logs, tags and all the rest).
C16_InvocationsAreIsolated ==
  /\ [](\A i \in Slots : WorksOnOwnDelivery(i))
  /\ [][\A i \in Slots :
         pc'[i] # pc[i] => \A j \in Slots \ {i} : SlotState(j)' = SlotState(j)]_vars

\* Both invocations are under way, each with two requests sent: the first
\* awaits its second page while the second awaits a submission.
C16_Witness ==
  /\ pc[1] = "await_api"
  /\ Len(apiRequests[1]) = 2
  /\ pc[2] = "await_dd"
  /\ Len(apiRequests[2]) = 2
  /\ Len(Dispatched(2)) = 2
  /\ payload[1].data.runId # payload[2].data.runId
  /\ client[1].environment_id # client[2].environment_id

\* The answer announces a next page but gives no cursor for it: endCursor
\* is null or empty.
Truncates(response) == SaysNext(response) /\ ~StrTruthy(EndCursorOf(response))

\* C17: a successful answer that gives no usable next-page cursor, be it
\* that hasNextPage is false or absent or that hasNextPage is true with a
\* null or empty endCursor, is the last of the call: no request follows,
\* no error is raised by the fetch, run_query returns the edges of the
\* pages received so far, and the handler goes on to extract from these
\* edges and to dispatch what it finds.
C17_FalsyCursorEndsPagination ==
  \A i \in Slots :
    \A n \in 1..Len(apiResponses[i]) :
      (~NonSuccess(apiResponses[i][n]) /\ ~Continues(apiResponses[i][n])) =>
        /\ n = Len(apiResponses[i])
        /\ Len(apiRequests[i]) = n
        /\ Returned(i)
        /\ edges[i] = ConcatEdges(apiResponses[i])
        /\ pc[i] \in {"extract", "build", "next_chunk", "submit", "await_dd", "done"}
        /\ outcome[i] # Uncaught("HTTPError")
        /\ (Truncates(apiResponses[i][n]) /\ "nodes" \in bound[i]) =>
             nodes[i] = get_run_metadata(edges[i], IntOf(payload[i].data.runId))
        /\ (Truncates(apiResponses[i][n]) /\ pc[i] = "done" /\ outcome[i] = Success) =>
             Len(Dispatched(i)) = Len(nodes[i])

C17_Witness ==
  \E i \in Slots :
    /\ Len(apiResponses[i]) = 2
    /\ Truncates(apiResponses[i][2])
    /\ EndCursorOf(apiResponses[i][2]) = ""
    /\ Len(apiRequests[i]) = 2
    /\ pc[i] = "done"
    /\ outcome[i] = Success
    /\ Len(Dispatched(i)) = 2

\* The keys the per-page update of the variables writes.
UpdatedKeys == {"environmentId", "limit", "after", "first"}

\* C19: every request of a run_query call carries the query, the filter
\* the caller supplied, the environment id of the client and first = limit
\* = the limit of the call, as the first request does, the variables having
\* the caller's keys and the four updated ones and nothing else; two
\* requests differ at most in the after cursor; the variables mapping the
\* call holds keeps the caller's filter through every update.
C19_OnlyAfterChangesBetweenPages ==
  \A i \in Slots :
    LET rq == apiRequests[i]
        supplied == [filter |-> [types |-> NODE_TYPES]] IN
      /\ \A n \in 1..Len(rq) :
           LET sent == rq[n].json.variables IN
             /\ rq[n].json.query = QUERY
             /\ rq[n].json.query = rq[1].json.query
             /\ DOMAIN sent = DOMAIN supplied \cup UpdatedKeys
             /\ \A k \in DOMAIN supplied : sent[k] = supplied[k]
             /\ sent.environmentId = client[i].environment_id
             /\ sent.first = DEFAULT_LIMIT
             /\ sent.limit = DEFAULT_LIMIT
             /\ [sent EXCEPT !.after = None] = [rq[1].json.variables EXCEPT !.after = None]
             /\ rq[n].url = rq[1].url
             /\ rq[n].headers = rq[1].headers
      /\ Len(rq) >= 1 =>
           /\ \A k \in DOMAIN supplied : k \in DOMAIN variables[i] /\ variables[i][k] = supplied[k]
           /\ variables[i] = rq[Len(rq)].json.variables

C19_Witness ==
  \E i \in Slots :
    /\ Len(apiRequests[i]) = 3
    /\ apiRequests[i][1].json.variables.after = None
    /\ apiRequests[i][2].json.variables.after = CursorOf(10, 1)
    /\ apiRequests[i][3].json.variables.after = CursorOf(10, 2)
    /\ apiRequests[i][3].json.variables.filter = [types |-> NODE_TYPES]

\* Every answer slot i has received so far is a success that announces a
\* next page with a non-empty cursor.
AllPagesContinue(i) ==
  /\ apiResponses[i] # <<>>
  /\ \A n \in 1..Len(apiResponses[i]) :
       ~NonSuccess(apiResponses[i][n]) /\ Continues(apiResponses[i][n])

\* While every page received announces a next one, run_query goes on
\* paging, whatever the number of pages: one page counted per answer, the
\* next request due or sent, nothing returned, extracted or dispatched, no
\* response given.
PagingGoesOn(i) ==
  AllPagesContinue(i) =>
    /\ pc[i] \in {"query", "await_api"}
    /\ page[i] = Len(apiResponses[i])
    /\ Len(all_results[i]) = Len(ConcatEdges(apiResponses[i]))
    /\ pc[i] = "await_api" => Len(apiRequests[i]) = Len(apiResponses[i]) + 1
    /\ ~Returned(i)
    /\ "nodes" \notin bound[i]
    /\ ddRequests[i] = <<>>
    /\ outcome[i] = NoResponse

\* C18: when every step that can be taken is taken (every request sent is
\* answered) and the API ends the pagination at some page, an invocation
\* that has received its delivery ends, with the success response or with
\* an error; and as long as every page announces a next one with a
\* non-empty cursor the invocation keeps paging and reaches no extraction,
\* no dispatch and no response, run_query having no bound of its own.
C18_EndsWhenThePaginationEnds ==
  /\ \A i \in Slots : (pc[i] = "verify") ~> (pc[i] = "done" /\ outcome[i] # NoResponse)
  /\ [](\A i \in Slots : PagingGoesOn(i))

C18_Witness ==
  \E i \in Slots :
    /\ pc[i] = "done"
    /\ outcome[i] = Success
    /\ Len(apiResponses[i]) = 3
    /\ Continues(apiResponses[i][1])
    /\ Continues(apiResponses[i][2])
    /\ ~SaysNext(apiResponses[i][3])

====
